---- MODULE Spec2Model ----
(***************************************************************************)
(* NeoPixelClock: a clock on two NeoPixel rings (24 and 60 pixels), an     *)
(* SSD1306 text display, a DS1307 real time clock and two buttons.         *)
(*                                                                         *)
(* The module models src/NeopixelClock.ino: the three ring strategies      *)
(* (Analog, Arc, Pastel) with their Display and Update, the three text     *)
(* display strategies, the four configuration screens, configure(),        *)
(* setup() and loop().                                                     *)
(*                                                                         *)
(* Every strategy object holds its rings as Adafruit_NeoPixel members that *)
(* were copy-constructed from the two global ring objects (lines 261-264,  *)
(* 299-300, 582-584); the copies carry the same pixel buffer pointer, so   *)
(* all strategies write one buffer per ring.  The model therefore has one  *)
(* pixel buffer and one set of lit LEDs per ring.                          *)
(***************************************************************************)
EXTENDS Integers, Sequences, FiniteSets, TLC

VARIABLES
  pc,         \* position of the program: "loop", a screen, "ret", ...
  disp_mode,  \* index into time_display[]
  oled_mode,  \* index into oled_display[]
  now,        \* DateTime now
  then,       \* DateTime then
  rtc,        \* the DS1307: its Moment t and the milliseconds frac into that second
  rings,      \* pixel buffers px24, px60 and the LEDs as last shown led24, led60
  pastel,     \* private members of PastelTimeDisplay
  millis,     \* the millisecond counter, 32 bits, as <<high 16 bits, low 16 bits>>
  blu,        \* blue (primary) button: "up" or "down"
  red,        \* red (secondary) button: "up" or "down"
  oled,       \* the text display: font, cursor and the cells printed since clear
  obs         \* observations of the run (history), read by the properties only

vars == <<pc, disp_mode, oled_mode, now, then, rtc, rings, pastel, millis, blu, red, oled, obs>>

---------------------------------------------------------------------------
(* Program constants *)

RING60_MAX == 60

RING24_MAX == 24

disp_mode_max == 3

oled_mode_max == 3

mn_delay == 1000

hr_delay == 2500

bk_delay == 500

---------------------------------------------------------------------------
(* unsigned long: 32 bits, kept as <<hi, lo>> with hi, lo in 0..65535 *)

W16 == 256 * 256

U32Of(n) == <<(n \div W16) % W16, n % W16>>

\* a + n for an unsigned long a and 0 <= n < 2^31, modulo 2^32
U32Add(a, n) ==
  LET lo == a[2] + (n % W16)
      hi == a[1] + (n \div W16) + (lo \div W16)
  IN  <<hi % W16, lo % W16>>

\* a - b modulo 2^32
U32Sub(a, b) ==
  LET lo == a[2] - b[2]
      hi == a[1] - b[1] - (IF lo < 0 THEN 1 ELSE 0)
  IN  <<hi % W16, lo % W16>>

U32Gt(a, b) == a[1] > b[1] \/ (a[1] = b[1] /\ a[2] > b[2])

---------------------------------------------------------------------------
(* Colours and pixels *)

Off == <<0, 0, 0>>

\* setPixelColor(n, r, g, b): the channels are uint8_t parameters
Rgb(r, g, b) == <<r % 256, g % 256, b % 256>>

\* Pack gone wrong: red and green change places, as in the NEO_GRB byte order
PackGRB(c) == c[2] * 65536 + c[1] * 256 + c[3]

\* getPixelColor(n): the packed 32-bit colour
Pack(c) == c[1] * 65536 + c[2] * 256 + c[3]

\* setPixelColor(n, uint32_t c): the packed colour taken apart again
Unpack(n) == <<(n \div 65536) % 256, (n \div 256) % 256, n % 256>>

\* setPixelColor on one ring buffer; the library ignores n >= numPixels()
SetPixelColor(ring, n, c) ==
  IF n \in DOMAIN ring THEN [ring EXCEPT ![n] = c] ELSE ring

\* Fill gone wrong: the loop body is never run
FillNone(ring, from, last, c) == ring

\* for (idx = from; idx <= last; idx++) ring.setPixelColor(idx, c): every pixel
\* of the ring with from <= idx <= last is set, an idx beyond the ring is ignored
Fill(ring, from, last, c) ==
  [idx \in DOMAIN ring |-> IF from <= idx /\ idx <= last THEN c ELSE ring[idx]]

Show24(r) == [r EXCEPT !.led24 = r.px24]

Show60(r) == [r EXCEPT !.led60 = r.px60]

\* the rings after ring60.begin(), ring24.begin(): all pixels zero, nothing lit
BlankRings ==
  [px24 |-> [i \in 0..(RING24_MAX - 1) |-> Off],
   px60 |-> [i \in 0..(RING60_MAX - 1) |-> Off],
   led24 |-> [i \in 0..(RING24_MAX - 1) |-> Off],
   led60 |-> [i \in 0..(RING60_MAX - 1) |-> Off]]

\* TwentyFourToTwelve gone wrong: midday is not taken down to 0
TwentyFourToTwelveNoon(twenty_four) ==
  IF twenty_four > 12 THEN twenty_four - 12 ELSE twenty_four

\* TwentyFourToTwelve gone wrong: the hour is passed on as it is
TwentyFourToTwelveNot(twenty_four) == twenty_four

TwentyFourToTwelve(twenty_four) ==
  IF twenty_four >= 12 THEN twenty_four - 12 ELSE twenty_four

---------------------------------------------------------------------------
(* AnalogTimeDisplay *)

AnalogDisplay(r, tn) ==
  LET hr  == TwentyFourToTwelve(tn.hour) * 2
      t60 == [idx \in DOMAIN r.px60 |-> IF idx % 5 = 0 THEN Rgb(10, 10, 10) ELSE Off]
      m60 == SetPixelColor(t60, tn.minute, Rgb(0, 30, 0))
      s60 == SetPixelColor(m60, tn.second, Rgb(0, 0, 30))
      z24 == [idx \in DOMAIN r.px24 |-> Off]
      h24 == SetPixelColor(z24, hr, Rgb(30, 0, 0))
  IN  Show24(Show60([r EXCEPT !.px60 = s60, !.px24 = h24]))

\* Vacated gone wrong: the tick marks are forgotten
VacatedOff(idx) == Off

\* the colour Update gives back to a pixel the minute or the second has left:
\* lines 553-556 and 565-568
Vacated(idx) == IF idx % 5 = 0 THEN Rgb(10, 10, 10) ELSE Off

AnalogUpdate(r, tn, tt) ==
  LET tn_hr == TwentyFourToTwelve(tn.hour) * 2
      tt_hr == TwentyFourToTwelve(tt.hour) * 2
      r1 == IF tn_hr # tt_hr
            THEN Show24([r EXCEPT !.px24 =
                   SetPixelColor(SetPixelColor(r.px24, tn_hr, Rgb(30, 0, 0)), tt_hr, Off)])
            ELSE r
      a60 == IF tn.minute # tt.minute
             THEN SetPixelColor(
                    SetPixelColor(r1.px60, tt.minute, Vacated(tt.minute)),
                    tn.minute, Rgb(0, 30, 0))
             ELSE r1.px60
      b60 == IF tn.second # tt.second
             THEN SetPixelColor(
                    IF tt.second = tn.minute
                    THEN SetPixelColor(a60, tn.minute, Rgb(0, 30, 0))
                    ELSE SetPixelColor(a60, tt.second, Vacated(tt.second)),
                    tn.second, Rgb(0, 0, 30))
             ELSE a60
      show60 == tn.minute # tt.minute \/ tn.second # tt.second
      r2 == [r1 EXCEPT !.px60 = b60]
  IN  IF show60 THEN Show60(r2) ELSE r2

---------------------------------------------------------------------------
(* ArcTimeDisplay *)

\* ArcPixel gone wrong: the arc stops one pixel short of hr
ArcPixelBelow(idx, hr, c) == IF idx < hr THEN c ELSE Off

\* the colour of pixel idx of the hours ring at an hour other than 0 and 12:
\* if (idx <= hr) setPixelColor(idx, red, 0, blue) else setPixelColor(idx, 0, 0, 0)
ArcPixel(idx, hr, c) == IF idx <= hr THEN c ELSE Off

ArcDisplay(r, tn) ==
  LET hr   == (TwentyFourToTwelve(tn.hour) * 2) % 256
      a60  == [idx \in DOMAIN r.px60 |->
                 LET blue  == IF tn.hour < 12 /\ idx <= tn.second THEN 30 ELSE 0
                     redc  == IF tn.hour >= 12 /\ idx <= tn.second THEN 30 ELSE 0
                     green == IF idx <= tn.minute THEN 30 ELSE 0
                 IN  Rgb(redc, green, blue)]
      redh == IF tn.hour < 12 THEN 30 ELSE 0
      blueh == IF tn.hour < 12 THEN 0 ELSE 30
      a24  == IF tn.hour = 0 THEN Fill(r.px24, 0, RING24_MAX, Off)
              ELSE IF tn.hour = 12 THEN Fill(r.px24, 0, RING24_MAX, Rgb(redh, 0, blueh))
              ELSE [idx \in DOMAIN r.px24 |-> ArcPixel(idx, hr, Rgb(redh, 0, blueh))]
  IN  Show60(Show24([r EXCEPT !.px60 = a60, !.px24 = a24]))

\* ArcUpdate gone wrong: every change is answered with a full redraw
ArcUpdateRedraw(r, tn, tt) == ArcDisplay(r, tn)

ArcUpdate(r, tn, tt) ==
  IF tn.minute # tt.minute THEN ArcDisplay(r, tn)
  ELSE IF tn.second # tt.second
  THEN LET blue  == IF tn.hour < 12 THEN 30 ELSE 0
           redc  == IF tn.hour < 12 THEN 0 ELSE 30
           green == IF tn.second <= tn.minute THEN 30 ELSE 0
       IN  Show60([r EXCEPT !.px60 = SetPixelColor(r.px60, tn.second, Rgb(redc, green, blue))])
  ELSE r

---------------------------------------------------------------------------
(* PastelTimeDisplay *)

\* the members of a PastelTimeDisplay with static storage before any Display
PastelZero ==
  [minute_clr |-> 0, hour_clr |-> 0,
   minute_tmr |-> U32Of(0), hour_tmr |-> U32Of(0), blink_tmr |-> U32Of(0),
   led_off |-> FALSE]

\* PastelStep gone wrong: the channels never change roles at 20
PastelStepNoTurn(st, step) ==
  LET c1 == [st.clr EXCEPT ![st.add_idx + 1] = @ + step]
      c2 == [c1 EXCEPT ![st.sub_idx + 1] = @ - step]
  IN  [clr |-> c2, sub_idx |-> st.sub_idx, add_idx |-> st.add_idx]

\* one turn of the gradient: if (clr[add_idx] == 20) {...}; clr[add_idx] += step; clr[sub_idx] -= step
PastelStep(st, step) ==
  LET turn == st.clr[st.add_idx + 1] = 20
      sub  == IF turn THEN st.add_idx ELSE st.sub_idx
      add  == IF turn THEN (st.add_idx + 1) % 3 ELSE st.add_idx
      c1   == [st.clr EXCEPT ![add + 1] = @ + step]
      c2   == [c1 EXCEPT ![sub + 1] = @ - step]
  IN  [clr |-> c2, sub_idx |-> sub, add_idx |-> add]

RECURSIVE PastelRun(_, _, _, _)
\* the loop body for idx = lo .. hi, started in gradient state st: the colours
\* passed to setPixelColor, in order, and the gradient state after idx = hi.
\* wide = FALSE is the RING60 loop (step 1), wide = TRUE the RING24 loop, whose
\* step_val starts at 2 and alternates, so it is 2 at even idx and 3 at odd idx.
PastelRun(st, lo, hi, wide) ==
  IF lo > hi THEN [painted |-> <<>>, st |-> st]
  ELSE IF lo = hi
  THEN [painted |-> <<Rgb(st.clr[1], st.clr[2], st.clr[3])>>,
        st |-> PastelStep(st, IF wide THEN (IF lo % 2 = 0 THEN 2 ELSE 3) ELSE 1)]
  ELSE LET mid   == (lo + hi) \div 2
           left  == PastelRun(st, lo, mid, wide)
           right == PastelRun(left.st, mid + 1, hi, wide)
       IN  [painted |-> left.painted \o right.painted, st |-> right.st]

\* int clr[3] = {20, 0, 0}; sub_idx = 0; add_idx = 1
PastelStart == [clr |-> <<20, 0, 0>>, sub_idx |-> 0, add_idx |-> 1]

\* the 60 colours of the first loop and the state it hands to the second
PastelLoop60 == PastelRun(PastelStart, 0, RING60_MAX - 1, FALSE)

\* the 24 colours of the second loop, which goes on from where the first stopped
PastelLoop24 == PastelRun(PastelLoop60.st, 0, RING24_MAX - 1, TRUE)

\* Display(tn) at millisecond counter ms: the rings and the members afterwards
PastelDisplay(r, p, ms, tn) ==
  LET hr  == (TwentyFourToTwelve(tn.hour) * 2) % 256
      g60 == [idx \in DOMAIN r.px60 |-> PastelLoop60.painted[idx + 1]]
      g24 == [idx \in DOMAIN r.px24 |-> PastelLoop24.painted[idx + 1]]
      hc  == Pack(g24[hr])
      mc  == Pack(g60[tn.minute])
      d24 == SetPixelColor(g24, hr, Unpack(0))
      d60 == SetPixelColor(g60, tn.minute, Unpack(0))
  IN  [rings  |-> Show24(Show60([r EXCEPT !.px24 = d24, !.px60 = d60])),
       pastel |-> [minute_clr |-> mc, hour_clr |-> hc,
                   minute_tmr |-> U32Add(ms, mn_delay),
                   hour_tmr   |-> U32Add(ms, hr_delay),
                   blink_tmr  |-> U32Add(ms, bk_delay),
                   led_off    |-> TRUE]]

\* RestoreMarker gone wrong: the cached colour is never written back
RestoreMarkerSkip(ring, idx, clr) == ring

\* ring.setPixelColor(idx, clr) with a cached packed colour
RestoreMarker(ring, idx, clr) == SetPixelColor(ring, idx, Unpack(clr))

\* temp = get(MAX-1); for (idx = MAX-1; idx > 0; idx--) set(idx, get(idx-1)); set(0, temp)
Rotate(ring, max) ==
  [idx \in DOMAIN ring |->
     Unpack(Pack(IF idx = 0 THEN ring[max - 1] ELSE ring[idx - 1]))]

\* Update(tn, tt) at millisecond counter ms
PastelUpdate(r, p, ms, tn, tt) ==
  LET tn_hr == TwentyFourToTwelve(tn.hour) * 2
      tt_hr == TwentyFourToTwelve(tt.hour) * 2
      a24 == RestoreMarker(r.px24, tt_hr, p.hour_clr)
      a60 == RestoreMarker(r.px60, tt.minute, p.minute_clr)
      rot60 == U32Gt(ms, p.minute_tmr)
      b60 == IF rot60 THEN Rotate(a60, RING60_MAX) ELSE a60
      rot24 == U32Gt(ms, p.hour_tmr)
      b24 == IF rot24 THEN Rotate(a24, RING24_MAX) ELSE a24
      hc  == Pack(b24[tn_hr])
      mc  == Pack(b60[tn.minute])
      c24 == IF p.led_off THEN SetPixelColor(b24, tn_hr, Unpack(0)) ELSE b24
      c60 == IF p.led_off THEN SetPixelColor(b60, tn.minute, Unpack(0)) ELSE b60
      blink == U32Gt(ms, p.blink_tmr)
  IN  [rings  |-> Show60(Show24([r EXCEPT !.px24 = c24, !.px60 = c60])),
       pastel |-> [minute_clr |-> mc, hour_clr |-> hc,
                   minute_tmr |-> IF rot60 THEN U32Add(ms, mn_delay) ELSE p.minute_tmr,
                   hour_tmr   |-> IF rot24 THEN U32Add(ms, hr_delay) ELSE p.hour_tmr,
                   blink_tmr  |-> IF blink THEN U32Add(ms, bk_delay) ELSE p.blink_tmr,
                   led_off    |-> IF blink THEN ~p.led_off ELSE p.led_off]]

---------------------------------------------------------------------------
(* time_display[disp_mode]->Display / ->Update: virtual dispatch *)

TimeDisplay(mode, r, p, ms, tn) ==
  CASE mode = 0 -> [rings |-> AnalogDisplay(r, tn), pastel |-> p]
    [] mode = 1 -> [rings |-> ArcDisplay(r, tn), pastel |-> p]
    [] OTHER    -> PastelDisplay(r, p, ms, tn)

TimeUpdate(mode, r, p, ms, tn, tt) ==
  CASE mode = 0 -> [rings |-> AnalogUpdate(r, tn, tt), pastel |-> p]
    [] mode = 1 -> [rings |-> ArcUpdate(r, tn, tt), pastel |-> p]
    [] OTHER    -> PastelUpdate(r, p, ms, tn, tt)

---------------------------------------------------------------------------
(* Moments *)

MkMoment(y, mo, d, h, mi, s) ==
  [year |-> y, month |-> mo, day |-> d, hour |-> h, minute |-> mi, second |-> s]

\* days of a month as the DS1307 counts them (leap years: year divisible by 4)
DaysInMonth(y, mo) ==
  IF mo = 2 THEN (IF y % 4 = 0 THEN 29 ELSE 28)
  ELSE IF mo \in {4, 6, 9, 11} THEN 30 ELSE 31

\* the Moment one second after m
NextSecond(m) ==
  IF m.second < 59 THEN [m EXCEPT !.second = @ + 1]
  ELSE IF m.minute < 59 THEN [m EXCEPT !.second = 0, !.minute = @ + 1]
  ELSE IF m.hour < 23 THEN [m EXCEPT !.second = 0, !.minute = 0, !.hour = @ + 1]
  ELSE IF m.day < DaysInMonth(m.year, m.month)
  THEN [m EXCEPT !.second = 0, !.minute = 0, !.hour = 0, !.day = @ + 1]
  ELSE IF m.month < 12
  THEN [m EXCEPT !.second = 0, !.minute = 0, !.hour = 0, !.day = 1, !.month = @ + 1]
  ELSE [m EXCEPT !.second = 0, !.minute = 0, !.hour = 0, !.day = 1, !.month = 1,
                 !.year = @ + 1]

\* the Moment k seconds after m, k in 0..2
AddSeconds(m, k) ==
  IF k = 0 THEN m ELSE IF k = 1 THEN NextSecond(m) ELSE NextSecond(NextSecond(m))

\* The DS1307 is a record: t, the Moment it returns to rtc.now(), and frac, the
\* milliseconds since it last counted a second.  The clock after ms milliseconds:
Elapse(clk, ms) ==
  [t |-> AddSeconds(clk.t, (clk.frac + ms) \div 1000), frac |-> (clk.frac + ms) % 1000]

\* rtc.adjust(m): writing the seconds register restarts the count of the second
Adjust(m) == [t |-> m, frac |-> 0]

\* tn.dayOfTheWeek(): 0 is Sunday; days counted from 2000-01-01, a Saturday
DayOfTheWeek(m) ==
  LET y == m.year - 2000
      before[mo \in 1..12] ==
        IF mo = 1 THEN 0 ELSE before[mo - 1] + DaysInMonth(1, mo - 1)
      days == m.day + before[m.month]
              + (IF m.month > 2 /\ y % 4 = 0 THEN 1 ELSE 0)
              + 365 * y + ((y + 3) \div 4) - 1
  IN  (days + 6) % 7

---------------------------------------------------------------------------
(* The text display.  A cell is what one print call put at a cursor        *)
(* position; a number is printed digit by digit, one cell per digit.       *)

\* the text display before oled.begin() has drawn anything
OledBlank == [font |-> "none", col |-> 0, row |-> 0, cells |-> {}]

\* oled.fontRows() with set2X(): Arial14 is 14 pixels high, lcdnums14x24 is 24
FontRows(font) == IF font = "lcdnums14x24" THEN 6 ELSE 4

OledSetFont(o, font) == [o EXCEPT !.font = font]

OledClear(o) == [o EXCEPT !.cells = {}, !.col = 0, !.row = 0]

OledSetCursor(o, c, r) == [o EXCEPT !.col = c, !.row = r]

\* print one token at the cursor, over what was there, and move the cursor on
OledPrint(o, txt) ==
  [o EXCEPT !.cells = {x \in @ : ~(x.col = o.col /\ x.row = o.row)}
                        \cup {[col |-> o.col, row |-> o.row, txt |-> txt]},
            !.col = @ + 1]

OledPrintln(o, txt) ==
  LET q == OledPrint(o, txt) IN [q EXCEPT !.col = 0, !.row = @ + FontRows(o.font)]

\* the character of a decimal digit
Digit(n) == <<"0", "1", "2", "3", "4", "5", "6", "7", "8", "9">>[n + 1]

\* print(n) for 0 <= n <= 9999: its decimal digits
OledPrintNum(o, n) ==
  LET d1 == IF n >= 1000 THEN OledPrint(o, Digit((n \div 1000) % 10)) ELSE o
      d2 == IF n >= 100 THEN OledPrint(d1, Digit((n \div 100) % 10)) ELSE d1
      d3 == IF n >= 10 THEN OledPrint(d2, Digit((n \div 10) % 10)) ELSE d2
  IN  OledPrint(d3, Digit(n % 10))

OledClearToEOL(o) ==
  [o EXCEPT !.cells = {x \in @ : ~(x.row = o.row /\ x.col >= o.col)}]

---------------------------------------------------------------------------
(* NoOledDisplay, SecondsOledDisplay, DateOledDisplay *)

week_days ==
  <<"   Sunday", "   Monday", "  Tuesday", "Wednesday", " Thursday", "   Friday", " Saturday">>

display_seconds(o, tn) ==
  LET c == OledSetCursor(o, 40, 20)
      z == IF tn.second < 10 THEN OledPrint(c, "0") ELSE c
  IN  OledPrintNum(z, tn.second)

display_date(o, tn) ==
  LET a == OledPrintln(o, week_days[DayOfTheWeek(tn) + 1])
      b == OledPrint(OledPrintNum(a, tn.year), "/")
      c == OledPrintNum(IF tn.month < 10 THEN OledPrint(b, "0") ELSE b, tn.month)
      d == OledPrint(c, "/")
  IN  OledPrintNum(IF tn.day < 10 THEN OledPrint(d, "0") ELSE d, tn.day)

\* oled_display[mode]->Display(tn)
OledDisplay(mode, o, tn) ==
  CASE mode = 0 -> OledClear(o)
    [] mode = 1 -> display_seconds(OledSetFont(o, "lcdnums14x24"), tn)
    [] OTHER    -> display_date(OledClear(OledSetFont(o, "Arial14")), tn)

\* oled_display[mode]->Update(tn, tt)
OledUpdate(mode, o, tn, tt) ==
  CASE mode = 0 -> o
    [] mode = 1 -> IF tn.second # tt.second THEN display_seconds(o, tn) ELSE o
    [] OTHER    -> IF tn.day # tt.day THEN display_date(o, tn) ELSE o

\* time_display[mode]->getName()
TimeName(mode) ==
  CASE mode = 0 -> "Analog    " [] mode = 1 -> "RGB Arc   " [] OTHER -> "Pastel    "

\* oled_display[mode]->getName()
OledName(mode) ==
  CASE mode = 0 -> "Off       " [] mode = 1 -> "Seconds   " [] OTHER -> "Date      "

---------------------------------------------------------------------------
(* Buttons and time *)

\* wait_release gone wrong: the loop is not there, the button is left as it was
wait_release_skip(button) == button

\* while (digitalRead(button) == LOW); at lines 85 and 775: what the button reads
\* when the loop is left
wait_release(button) == "up"

\* long_button_press gone wrong: the two counter values are compared as plain
\* numbers, so a counter that wrapped around looks like a negative time
long_button_press_nowrap(start, end, time_ms) ==
  IF U32Gt(start, end) THEN FALSE ELSE ~U32Gt(U32Of(time_ms), U32Sub(end, start))

\* long_button_press gone wrong: true only when held longer than time_ms
long_button_press_strict(start, end, time_ms) == U32Gt(U32Sub(end, start), U32Of(time_ms))

\* long_button_press(button, time_ms), entered at counter value start and left,
\* when the button reads released, at counter value end
long_button_press(start, end, time_ms) == ~U32Gt(U32Of(time_ms), U32Sub(end, start))

\* how long short_button_press(button, time_ms) stays in its loop when the button
\* is released held ms after the call
short_button_press(held, time_ms) == IF held < time_ms THEN held ELSE time_ms

\* events in one run: button presses, polls that find no button pressed, polls
\* that find the red button still held, and iterations of loop()
MaxEvents == 7

\* milliseconds from a poll that reads the blue button pressed to its release
BlueHolds == {999, 1000}

\* milliseconds from a poll that reads the red button pressed to its release
RedHolds == {9, 500}

\* milliseconds between two iterations of loop() that are not alike
LoopTimes == {600}

\* what setup() may read from the DS1307
StartMoments ==
  {MkMoment(2019, 3, 9, 23, 59, 59),
   MkMoment(2019, 3, 9, 23, 59, 50),
   MkMoment(2019, 3, 9, 11, 59, 59),
   MkMoment(2019, 3, 9, 0, 4, 3)}

\* milliseconds into the second when setup() reads the DS1307
StartFracs == {500}

\* observations of the run; no action of the program reads them
ObsInit ==
  [events   |-> 0,       \* presses, idle polls, repeats and loop() iterations so far
   sessions |-> 0,       \* calls of configure() so far
   visited  |-> <<>>,    \* screens entered in the latest session, in order
   left     |-> "none",  \* the screen the latest primary press was read on
   hold     |-> 0,       \* milliseconds that press was held after it was read
   result   |-> FALSE,   \* what long_button_press returned for it
   dispLeft |-> -1,      \* disp_mode when the Display-mode screen was left
   oledLeft |-> -1,      \* oled_mode when the Secondary-mode screen was left
   redOn    |-> "none",  \* the screen that first read the red press now or last held
   redAdv   |-> 0,       \* steps by which that press has advanced the values shown
   redHold  |-> 0,       \* milliseconds the red button stayed down after the latest
                         \* poll that read it
   wrote    |-> <<>>,    \* the calls of rtc.adjust in the latest session, in order:
                         \* the screen and the Moment written
   entry    |-> <<>>,    \* the entries into a time-edit screen in the latest session,
                         \* in order: the screen, the Moment it read from the clock
                         \* and millis() at that reading
   steps    |-> 0,       \* advances made on that screen since its latest entry
   steady   |-> TRUE]    \* since setup() or the latest session that ran to its end, no
                         \* session was aborted and loop() read the clock each time
                         \* at most one second after the reading before

---------------------------------------------------------------------------
(* Screens: the legend and the line that shows the setting *)

\* oled.setFont(Arial14); oled.clear(); oled.println(legend)
ScreenLegend(o, legend) ==
  OledPrintln(OledClear(OledSetFont(o, "Arial14")), legend)

\* oled.setCursor(0, oled.fontRows()); oled.print(name); oled.clearToEOL()
ScreenName(o, name) ==
  OledClearToEOL(OledPrint(OledSetCursor(o, 0, FontRows(o.font)), name))

\* oled.setCursor(0, oled.fontRows()); oled.print(number); oled.clearToEOL()
ScreenNumber(o, n) ==
  OledClearToEOL(OledPrintNum(OledSetCursor(o, 0, FontRows(o.font)), n))

\* loop() read tn after tt: in step when tn is tt or the second after it
Steady(o, tn, tt) == [o EXCEPT !.steady = @ /\ (tn = tt \/ tn = NextSecond(tt))]

\* bookkeeping of a primary press read on screen scr, held d ms, classified res,
\* after which the program is at position to
Confirm(o, scr, d, res, to) ==
  [o EXCEPT !.left = scr, !.hold = d, !.result = res,
            !.visited = IF to = "ret" THEN @ ELSE Append(@, to)]

\* bookkeeping of rtc.adjust(m) called by screen scr
Wrote(o, scr, m) == [o EXCEPT !.wrote = Append(@, [on |-> scr, m |-> m])]

\* bookkeeping of the time-edit screen scr entered at ms, where it read m from the clock
Entered(o, scr, m, ms) ==
  [o EXCEPT !.entry = Append(@, [on |-> scr, m |-> m, at |-> ms]), !.steps = 0]

\* bookkeeping of an advance on a time-edit screen
StepTaken(o) == [o EXCEPT !.steps = @ + 1]

\* bookkeeping of a poll that read the red button down, d ms before its release
Held(o, d) == [o EXCEPT !.redHold = d]

\* bookkeeping of a secondary press read on screen scr that moved a value from
\* a to b, counted modulo n
Advance(o, scr, a, b, n) ==
  [o EXCEPT !.redOn = IF @ = "none" THEN scr ELSE @, !.redAdv = @ + ((b - a) % n)]

\* configure() gone wrong: configure_oled() is not called
configure_skip(scr, res) ==
  IF res THEN "ret"
  ELSE CASE scr = "disp" -> "hour"
         [] scr = "oled" -> "hour"
         [] scr = "hour" -> "minute"
         [] OTHER        -> "ret"

\* configure() gone wrong: what configure_time_hour() returned is not looked at
configure_deaf(scr, res) ==
  IF res /\ scr # "hour" THEN "ret"
  ELSE CASE scr = "disp" -> "oled"
         [] scr = "oled" -> "hour"
         [] scr = "hour" -> "minute"
         [] OTHER        -> "ret"

\* configure() gone wrong: after a short press on Minute edit the screens start over
configure_again(scr, res) ==
  IF res THEN "ret"
  ELSE CASE scr = "disp" -> "oled"
         [] scr = "oled" -> "hour"
         [] scr = "hour" -> "minute"
         [] OTHER        -> "disp"

\* configure(), lines 777-781: where the program goes on after the screen scr
\* returned res
configure(scr, res) ==
  IF res THEN "ret"
  ELSE CASE scr = "disp" -> "oled"
         [] scr = "oled" -> "hour"
         [] scr = "hour" -> "minute"
         [] OTHER        -> "ret"

---------------------------------------------------------------------------
(* setup() *)

\* the millisecond counter when setup() draws the rings
StartMillis == {U32Of(0)}

Init ==
  /\ pc = "loop"
  /\ disp_mode = 0
  /\ oled_mode = 1
  /\ rtc \in [t : StartMoments, frac : StartFracs]
  /\ now = rtc.t
  /\ then = rtc.t
  /\ millis \in StartMillis
  /\ LET d == TimeDisplay(0, BlankRings, PastelZero, millis, rtc.t)
     IN  rings = d.rings /\ pastel = d.pastel
  /\ oled = OledDisplay(1, OledBlank, rtc.t)
  /\ blu = "up"
  /\ red = "up"
  /\ obs = ObsInit

---------------------------------------------------------------------------
(* The user *)

BluePress ==
  /\ blu = "up"
  /\ obs.events < MaxEvents
  /\ blu' = "down"
  /\ obs' = [obs EXCEPT !.events = @ + 1]
  /\ UNCHANGED <<pc, disp_mode, oled_mode, now, then, rtc, rings, pastel, millis, red, oled>>

\* the blue button let go while no code waits for it
BlueRelease ==
  /\ blu = "down"
  /\ blu' = "up"
  /\ UNCHANGED <<pc, disp_mode, oled_mode, now, then, rtc, rings, pastel, millis, red, oled, obs>>

RedPress ==
  /\ red = "up"
  /\ pc \in {"disp", "oled", "hour", "minute"}
  /\ obs.events < MaxEvents
  /\ red' = "down"
  /\ obs' = [obs EXCEPT !.events = @ + 1, !.redOn = "none", !.redAdv = 0,
                        !.redHold = 0]
  /\ UNCHANGED <<pc, disp_mode, oled_mode, now, then, rtc, rings, pastel, millis, blu, oled>>

\* the red button, still held when short_button_press returned, let go before the
\* next poll of configure_time_minute()
RedRelease ==
  /\ red = "down"
  /\ pc = "minute"
  /\ red' = "up"
  /\ UNCHANGED <<pc, disp_mode, oled_mode, now, then, rtc, rings, pastel, millis, blu, oled, obs>>

---------------------------------------------------------------------------
(* loop() *)

\* loop() with the blue button released: lines 832-835
LoopIter ==
  /\ pc = "loop"
  /\ blu = "up"
  /\ obs.events < MaxEvents
  /\ \E dt \in LoopTimes :
       /\ millis' = U32Add(millis, dt)
       /\ rtc' = Elapse(rtc, dt)
       /\ now' = rtc'.t
       /\ LET u == TimeUpdate(disp_mode, rings, pastel, millis', now', then)
          IN  rings' = u.rings /\ pastel' = u.pastel
       /\ oled' = OledUpdate(oled_mode, oled, now', then)
       /\ then' = now'
       /\ obs' = [Steady(obs, now', then) EXCEPT !.events = @ + 1]
  /\ UNCHANGED <<pc, disp_mode, oled_mode, blu, red>>

\* loop() reads the blue button pressed and calls configure(), which waits for
\* its release and enters configure_display(): lines 824-825, 775, 600-608
LoopConfigure ==
  /\ pc = "loop"
  /\ blu = "down"
  /\ \E d \in BlueHolds :
       /\ millis' = U32Add(millis, d)
       /\ rtc' = Elapse(rtc, d)
  /\ obs' = [obs EXCEPT !.sessions = @ + 1, !.visited = <<"disp">>,
                        !.left = "none", !.hold = 0, !.result = FALSE,
                        !.dispLeft = -1, !.oledLeft = -1, !.steady = FALSE,
                        !.wrote = <<>>, !.entry = <<>>, !.steps = 0]
  /\ blu' = wait_release(blu)
  /\ oled' = ScreenName(ScreenLegend(oled, "Set Display"), TimeName(disp_mode))
  /\ pc' = "disp"
  /\ UNCHANGED <<disp_mode, oled_mode, now, then, rings, pastel, red>>

\* loop_redraw gone wrong: the screen is left as configure() left it
loop_redraw_none(mode, o, tn) == o

\* oled.clear(); oled_display[oled_mode]->Display(now): lines 828-829
loop_redraw(mode, o, tn) == OledDisplay(mode, OledClear(o), tn)

\* loop() after configure() returned: lines 826-835
LoopResume ==
  /\ pc = "ret"
  /\ \E dt \in LoopTimes :
       /\ millis' = U32Add(millis, dt)
       /\ rtc' = Elapse(rtc, dt)
       /\ now' = rtc'.t
       /\ LET u == TimeUpdate(disp_mode, rings, pastel, millis', now', then)
          IN  rings' = u.rings /\ pastel' = u.pastel
       /\ oled' = OledUpdate(oled_mode, loop_redraw(oled_mode, oled, now), now', then)
       /\ then' = now'
       /\ obs' = Steady(obs, now', now)
  /\ pc' = "loop"
  /\ UNCHANGED <<disp_mode, oled_mode, blu, red>>

---------------------------------------------------------------------------
(* configure_display(): pc = "disp" is the head of its inner loop *)

\* lines 619-622 and 660-663: now = rtc.now(); Update(now, then); then = now; delay(100)
PollTail(mode, r, p, ms, tn, tt) == TimeUpdate(mode, r, p, ms, tn, tt)

\* no button reads pressed: lines 619-622
DispIdle ==
  /\ pc = "disp"
  /\ blu = "up" /\ red = "up"
  /\ obs.events < MaxEvents
  /\ now' = rtc.t
  /\ LET u == PollTail(disp_mode, rings, pastel, millis, now', then)
     IN  rings' = u.rings /\ pastel' = u.pastel
  /\ then' = now'
  /\ millis' = U32Add(millis, 100)
  /\ rtc' = Elapse(rtc, 100)
  /\ obs' = [obs EXCEPT !.events = @ + 1]
  /\ UNCHANGED <<pc, disp_mode, oled_mode, blu, red, oled>>

\* NextDispMode gone wrong: one entry is passed over
NextDispModeTwo(mode) == (mode + 2) % disp_mode_max

\* the next entry of time_display[]: line 616
NextDispMode(mode) == (mode + 1) % disp_mode_max

\* SelectDisplay gone wrong: the newly selected strategy is not asked to draw
SelectDisplayNone(mode, r, p, ms, tn) == [rings |-> r, pastel |-> p]

\* time_display[disp_mode]->Display(now) after disp_mode was advanced: line 617
SelectDisplay(mode, r, p, ms, tn) == TimeDisplay(mode, r, p, ms, tn)

\* the red button reads pressed: lines 614-622, and 605-608 when the press counted
DispRed ==
  /\ pc = "disp"
  /\ blu = "up" /\ red = "down"
  /\ \E d \in RedHolds :
       LET ms   == U32Add(millis, d)
           red_button_press == long_button_press(millis, ms, 10)
           mode == NextDispMode(disp_mode)
           dsp  == SelectDisplay(mode, rings, pastel, ms, now)
           clk  == Elapse(rtc, d)
           tn   == clk.t
           u    == PollTail(mode, dsp.rings, dsp.pastel, ms, tn, then)
       IN  /\ disp_mode' = mode
           /\ rtc' = Elapse(clk, 100)
           /\ now' = tn
           /\ then' = tn
           /\ rings' = u.rings
           /\ pastel' = u.pastel
           /\ millis' = U32Add(ms, 100)
           /\ oled' = IF red_button_press THEN ScreenName(oled, TimeName(mode)) ELSE oled
           /\ obs' = Held(Advance(obs, "disp", disp_mode, mode, disp_mode_max), d)
  /\ red' = "up"
  /\ UNCHANGED <<pc, oled_mode, blu>>

\* the blue button reads pressed: lines 611-613; configure() goes on at line 777
\* and, after a short press, into configure_oled(): lines 641-650
DispBlue ==
  /\ pc = "disp"
  /\ blu = "down"
  /\ \E d \in BlueHolds :
       LET ms  == U32Add(millis, d)
           res == long_button_press(millis, ms, 1000)
       IN  /\ millis' = ms
           /\ rtc' = Elapse(rtc, d)
           /\ pc' = configure("disp", res)
           /\ oled' = IF res THEN oled
                      ELSE ScreenName(ScreenLegend(oled, "Set OLED"), OledName(oled_mode))
           /\ obs' = [Confirm(obs, "disp", d, res, pc') EXCEPT !.dispLeft = disp_mode]
  /\ blu' = wait_release(blu)
  /\ UNCHANGED <<disp_mode, oled_mode, now, then, rings, pastel, red>>

---------------------------------------------------------------------------
(* configure_oled(): pc = "oled" is the head of its inner loop *)

\* no button reads pressed: lines 660-663
OledIdle ==
  /\ pc = "oled"
  /\ blu = "up" /\ red = "up"
  /\ obs.events < MaxEvents
  /\ now' = rtc.t
  /\ LET u == PollTail(disp_mode, rings, pastel, millis, now', then)
     IN  rings' = u.rings /\ pastel' = u.pastel
  /\ then' = now'
  /\ millis' = U32Add(millis, 100)
  /\ rtc' = Elapse(rtc, 100)
  /\ obs' = [obs EXCEPT !.events = @ + 1]
  /\ UNCHANGED <<pc, disp_mode, oled_mode, blu, red, oled>>

\* NextOledMode gone wrong: the last entry is not followed by the first
NextOledModeStick(mode) == IF mode + 1 < oled_mode_max THEN mode + 1 ELSE mode

\* the next entry of oled_display[]: line 658
NextOledMode(mode) == (mode + 1) % oled_mode_max

\* the red button reads pressed: lines 656-663, and 646-650 when the press counted
OledRed ==
  /\ pc = "oled"
  /\ blu = "up" /\ red = "down"
  /\ \E d \in RedHolds :
       LET ms   == U32Add(millis, d)
           red_button_press == long_button_press(millis, ms, 10)
           mode == NextOledMode(oled_mode)
           clk  == Elapse(rtc, d)
           tn   == clk.t
           u    == PollTail(disp_mode, rings, pastel, ms, tn, then)
       IN  /\ oled_mode' = mode
           /\ rtc' = Elapse(clk, 100)
           /\ now' = tn
           /\ then' = tn
           /\ rings' = u.rings
           /\ pastel' = u.pastel
           /\ millis' = U32Add(ms, 100)
           /\ oled' = IF red_button_press THEN ScreenName(oled, OledName(mode)) ELSE oled
           /\ obs' = Held(Advance(obs, "oled", oled_mode, mode, oled_mode_max), d)
  /\ red' = "up"
  /\ UNCHANGED <<pc, disp_mode, blu>>

\* the top of the outer loop of configure_time_hour(): lines 686-689
HourTop(o, tn) == ScreenNumber(o, tn.hour)

\* the blue button reads pressed: lines 653-655; configure() goes on at line 778
\* and, after a short press, into configure_time_hour(): lines 679-689
OledBlue ==
  /\ pc = "oled"
  /\ blu = "down"
  /\ \E d \in BlueHolds :
       LET ms  == U32Add(millis, d)
           res == long_button_press(millis, ms, 1000)
           clk == Elapse(rtc, d)
           tn  == clk.t
           dsp == TimeDisplay(disp_mode, rings, pastel, ms, tn)
       IN  /\ millis' = ms
           /\ rtc' = clk
           /\ pc' = configure("oled", res)
           /\ now' = IF res THEN now ELSE tn
           /\ rings' = IF res THEN rings ELSE dsp.rings
           /\ pastel' = IF res THEN pastel ELSE dsp.pastel
           /\ oled' = IF res THEN oled
                      ELSE HourTop(ScreenLegend(oled, "Set Hours"), tn)
           /\ obs' = LET o == [Confirm(obs, "oled", d, res, pc') EXCEPT
                                   !.oledLeft = oled_mode]
                     IN  IF res THEN o ELSE Entered(o, "hour", tn, ms)
  /\ blu' = wait_release(blu)
  /\ UNCHANGED <<disp_mode, oled_mode, then, red>>

---------------------------------------------------------------------------
(* configure_time_hour(): pc = "hour" is the head of its inner loop *)

\* AdvanceHour gone wrong: the hour is not reduced modulo 24
AdvanceHourOver(tn) ==
  MkMoment(tn.year, tn.month, tn.day, tn.hour + 1, tn.minute, 0)

\* DateTime(now.year(), now.month(), now.day(), hour, now.minute(), 0): lines 698-706
AdvanceHour(tn) ==
  MkMoment(tn.year, tn.month, tn.day, (tn.hour + 1) % 24, tn.minute, 0)

\* edit_now gone wrong: the poll reads the clock as the polls of configure_display() do
edit_now_reread(tn, clk) == clk.t

\* the Moment a poll of a time-edit screen that read no button pressed goes on with:
\* lines 708-710 and 756 do not assign `now`, the clock clk is not read
edit_now(tn, clk) == tn

\* no button reads pressed: lines 708-710
HourIdle ==
  /\ pc = "hour"
  /\ blu = "up" /\ red = "up"
  /\ obs.events < MaxEvents
  /\ now' = edit_now(now, rtc)
  /\ rtc' = Elapse(rtc, 100)
  /\ obs' = [obs EXCEPT !.events = @ + 1]
  /\ LET u == TimeUpdate(disp_mode, rings, pastel, millis, now', then)
     IN  rings' = u.rings /\ pastel' = u.pastel
  /\ then' = now'
  /\ millis' = U32Add(millis, 100)
  /\ UNCHANGED <<pc, disp_mode, oled_mode, blu, red, oled>>

\* the red button reads pressed: lines 696-710, and 685-689 when the press counted
HourRed ==
  /\ pc = "hour"
  /\ blu = "up" /\ red = "down"
  /\ \E d \in RedHolds :
       LET ms   == U32Add(millis, d)
           red_button_press == long_button_press(millis, ms, 10)
           tn   == AdvanceHour(now)
           u    == TimeUpdate(disp_mode, rings, pastel, ms, tn, then)
           ms2  == U32Add(ms, 100)
           dsp  == TimeDisplay(disp_mode, u.rings, u.pastel, ms2, tn)
       IN  /\ rtc' = Elapse(rtc, d + 100)
           /\ now' = tn
           /\ then' = tn
           /\ rings' = IF red_button_press THEN dsp.rings ELSE u.rings
           /\ pastel' = IF red_button_press THEN dsp.pastel ELSE u.pastel
           /\ millis' = ms2
           /\ oled' = IF red_button_press THEN HourTop(oled, tn) ELSE oled
           /\ obs' = StepTaken(Held(Advance(obs, "hour", now.hour, tn.hour, 24), d))
  /\ red' = "up"
  /\ UNCHANGED <<pc, disp_mode, oled_mode, blu>>

\* the blue button reads pressed: lines 692-695; configure() goes on at line 779
\* and, after a short press, into configure_time_minute(): lines 726-730
HourBlue ==
  /\ pc = "hour"
  /\ blu = "down"
  /\ \E d \in BlueHolds :
       LET ms  == U32Add(millis, d)
           res == long_button_press(millis, ms, 1000)
           clk == Elapse(Adjust(now), d)
       IN  /\ millis' = ms
           /\ rtc' = clk
           /\ pc' = configure("hour", res)
           /\ now' = IF res THEN now ELSE clk.t
           /\ oled' = IF res THEN oled ELSE ScreenLegend(oled, "Set Minute")
           /\ obs' = LET o == Wrote(Confirm(obs, "hour", d, res, pc'), "hour", now)
                     IN  IF res THEN o ELSE Entered(o, "minute", clk.t, ms)
  /\ blu' = wait_release(blu)
  /\ UNCHANGED <<disp_mode, oled_mode, then, rings, pastel, red>>

---------------------------------------------------------------------------
(* configure_time_minute(): pc = "minute" is the head of its only loop *)

\* AdvanceMinute gone wrong: minute 59 carries into the hour
AdvanceMinuteCarry(tn) ==
  MkMoment(tn.year, tn.month, tn.day, (tn.hour + ((tn.minute + 1) \div 60)) % 24,
           (tn.minute + 1) % 60, 0)

\* DateTime(now.year(), now.month(), now.day(), now.hour(), minute, 0): lines 744-753
AdvanceMinute(tn) ==
  MkMoment(tn.year, tn.month, tn.day, tn.hour, (tn.minute + 1) % 60, 0)

\* the text of lines 732-734 and 737
MinuteTop(o, tn) == OledClearToEOL(ScreenNumber(o, tn.minute))

\* no button reads pressed: lines 732-737, 756
MinuteIdle ==
  /\ pc = "minute"
  /\ blu = "up" /\ red = "up"
  /\ obs.events < MaxEvents
  /\ rtc' = Elapse(rtc, 100)
  /\ obs' = [obs EXCEPT !.events = @ + 1]
  /\ oled' = MinuteTop(oled, now)
  /\ LET dsp == TimeDisplay(disp_mode, rings, pastel, millis, now)
     IN  rings' = dsp.rings /\ pastel' = dsp.pastel
  /\ millis' = U32Add(millis, 100)
  /\ now' = edit_now(now, rtc)
  /\ UNCHANGED <<pc, disp_mode, oled_mode, then, blu, red>>

\* the red button reads pressed: lines 732-737, 742-756
MinuteRed ==
  /\ pc = "minute"
  /\ blu = "up" /\ red = "down"
  /\ obs.redOn = "none" \/ obs.events < MaxEvents
  /\ \E d \in RedHolds :
       LET wait == short_button_press(d, 200)
           ms   == U32Add(millis, wait)
           tn   == AdvanceMinute(now)
           top  == TimeDisplay(disp_mode, rings, pastel, millis, now)
           dsp  == TimeDisplay(disp_mode, top.rings, top.pastel, ms, tn)
       IN  /\ rtc' = Elapse(rtc, wait + 100)
           /\ then' = now
           /\ now' = tn
           /\ rings' = dsp.rings
           /\ pastel' = dsp.pastel
           /\ millis' = U32Add(ms, 100)
           /\ red' = IF d > wait THEN "down" ELSE "up"
           /\ obs' = [StepTaken(Held(Advance(obs, "minute", now.minute, tn.minute, 60), d))
                        EXCEPT !.events = IF obs.redOn = "none" THEN @ ELSE @ + 1]
  /\ oled' = MinuteTop(oled, now)
  /\ UNCHANGED <<pc, disp_mode, oled_mode, blu>>

\* the blue button reads pressed: lines 732-741; configure() goes on at line 780
\* and, after a short press, at line 781
MinuteBlue ==
  /\ pc = "minute"
  /\ blu = "down"
  /\ \E d \in BlueHolds :
       LET ms  == U32Add(millis, d)
           res == long_button_press(millis, ms, 1000)
           top == TimeDisplay(disp_mode, rings, pastel, millis, now)
       IN  /\ millis' = ms
           /\ rtc' = Elapse(Adjust(now), d)
           /\ rings' = top.rings
           /\ pastel' = top.pastel
           /\ then' = IF res THEN then ELSE now
           /\ pc' = configure("minute", res)
           /\ obs' = [Wrote(Confirm(obs, "minute", d, res, pc'), "minute", now) EXCEPT
                        !.steady = ~res]
  /\ oled' = MinuteTop(oled, now)
  /\ blu' = wait_release(blu)
  /\ UNCHANGED <<disp_mode, oled_mode, now, red>>

---------------------------------------------------------------------------
(* The program *)

Next ==
  \/ BluePress \/ BlueRelease \/ RedPress \/ RedRelease
  \/ LoopIter \/ LoopConfigure \/ LoopResume
  \/ DispIdle \/ DispRed \/ DispBlue
  \/ OledIdle \/ OledRed \/ OledBlue
  \/ HourIdle \/ HourRed \/ HourBlue
  \/ MinuteIdle \/ MinuteRed \/ MinuteBlue

Spec == Init /\ [][Next]_vars

---------------------------------------------------------------------------
(* RenderSpec: Display and Update of each strategy as functions of a pair  *)
(* of Moments.  Init draws the strategy, the previous Moment and the       *)
(* millisecond counter; RenderDisplay calls Display(previous);             *)
(* RenderUpdate draws the current Moment and the time that passed, and     *)
(* calls Update(current, previous).                                        *)

\* how far above 0 the sampled minutes and seconds go
RenderLow == 1

\* minutes and seconds tried: the low values, a tick mark that is not 0, the last one
SampleSixty == (0..RenderLow) \cup {5, 59}

\* hours tried: midnight, a morning hour, midday, the last hour
SampleHours == {0, 1, 12, 23}

RenderMoments ==
  {MkMoment(2019, 3, 9, h, mi, s) : h \in SampleHours, mi \in SampleSixty, s \in SampleSixty}

\* millisecond counter at Display(previous): just after start, and 700 ms before it wraps
RenderMillis == {U32Of(0), <<W16 - 1, W16 - 700>>}

\* milliseconds between Display(previous) and Update(current, previous)
RenderDelays == {0, 600, 1100, 2600}

RenderInit ==
  /\ pc = "blank"
  /\ disp_mode \in 0..(disp_mode_max - 1)
  /\ oled_mode = 1
  /\ then \in RenderMoments
  /\ now = then
  /\ rtc = Adjust(then)
  /\ rings = BlankRings
  /\ pastel = PastelZero
  /\ millis \in RenderMillis
  /\ blu = "up"
  /\ red = "up"
  /\ oled = OledBlank
  /\ obs = ObsInit

RenderDisplay ==
  /\ pc = "blank"
  /\ LET d == TimeDisplay(disp_mode, rings, pastel, millis, then)
     IN  rings' = d.rings /\ pastel' = d.pastel
  /\ pc' = "render"
  /\ UNCHANGED <<disp_mode, oled_mode, now, then, rtc, millis, blu, red, oled, obs>>

RenderUpdate ==
  /\ pc = "render"
  /\ \E cur \in RenderMoments, dt \in RenderDelays :
       /\ now' = cur
       /\ millis' = U32Add(millis, dt)
       /\ LET u == TimeUpdate(disp_mode, rings, pastel, millis', cur, then)
          IN  rings' = u.rings /\ pastel' = u.pastel
  /\ pc' = "rendered"
  /\ UNCHANGED <<disp_mode, oled_mode, then, rtc, blu, red, oled, obs>>

\* after an Update that found the Moment unchanged a strategy, the same or another
\* one, is selected and asked to draw that Moment over what the rings hold, as
\* configure_display() does
RenderRedisplay ==
  /\ pc = "rendered"
  /\ then = now
  /\ \E mode \in 0..(disp_mode_max - 1) :
       /\ disp_mode' = mode
       /\ LET d == TimeDisplay(mode, rings, pastel, millis, now)
          IN  rings' = d.rings /\ pastel' = d.pastel
  /\ pc' = "redrawn"
  /\ UNCHANGED <<oled_mode, now, then, rtc, millis, blu, red, oled, obs>>

RenderNext == RenderDisplay \/ RenderUpdate \/ RenderRedisplay

RenderSpec == RenderInit /\ [][RenderNext]_vars

---------------------------------------------------------------------------
(* Properties of Display and Update *)

\* C1: Analog: after Display(previous) and Update(current, previous) both rings
\* (pixel buffers and lit LEDs) are as Display(current) leaves them, for every pair.
C1_AnalogUpdateIsDisplay ==
  (pc = "rendered" /\ disp_mode = 0) => rings = AnalogDisplay(rings, now)

\* C2: Arc: after Display(previous) and Update(current, previous) both rings are
\* as Display(current) leaves them, for every pair.
C2_ArcUpdateIsDisplay ==
  (pc = "rendered" /\ disp_mode = 1) => rings = ArcDisplay(rings, now)

\* C3 as stated: Pastel: after Display(previous) and Update(current, previous) the
\* pixels of both rings are as Display(current) leaves them, whatever the
\* millisecond counter at the Update call.
C3_PastelUpdateIsDisplay ==
  (pc = "rendered" /\ disp_mode = 2)
    => rings = PastelDisplay(rings, pastel, millis, now).rings

\* C3 amended: Pastel: when at the Update call the millisecond counter is greater
\* than neither rotation deadline set by Display(previous), the pixels of both
\* rings after Update(current, previous) are as Display(current) leaves them,
\* also when the blink deadline has passed.
C3_PastelUpdateIsDisplayUnlessRotated ==
  [][(pc = "render" /\ pc' = "rendered" /\ disp_mode = 2
        /\ ~U32Gt(millis', pastel.minute_tmr) /\ ~U32Gt(millis', pastel.hour_tmr))
      => rings' = PastelDisplay(rings', pastel', millis', now').rings]_vars

\* C3 witness: an Update for another hour and minute, made after the blink deadline
\* passed, that left the rings as Display(current) does.
C3_Witness ==
  /\ pc = "rendered" /\ disp_mode = 2
  /\ now.hour # then.hour /\ now.minute # then.minute
  /\ ~pastel.led_off
  /\ rings = PastelDisplay(rings, pastel, millis, now).rings

---------------------------------------------------------------------------
(* Properties of the main loop and of the configuration session *)

\* the screens of a session, in the order of configure()
Screens == <<"disp", "oled", "hour", "minute">>

\* the sequence v is a prefix of the sequence w
IsPrefix(v, w) == Len(v) <= Len(w) /\ \A i \in 1..Len(v) : v[i] = w[i]

\* the program is at the head of the loop of one of the four screens
OnScreen(p) == \E i \in 1..Len(Screens) : Screens[i] = p

\* C4: in the main loop with Analog or Arc selected, when since setup() or since the
\* latest session that ran to its end every reading of the clock was at most one
\* second after the one before, both rings are after each iteration as
\* Display(now) leaves them.
C4_LoopShowsNow ==
  (pc = "loop" /\ obs.steady /\ disp_mode \in {0, 1})
    => rings = TimeDisplay(disp_mode, rings, pastel, millis, now).rings

\* C4 witness: the main loop, never interrupted, has carried the Analog rings over
\* midnight, where second, minute and hour change together.
C4_Witness ==
  /\ pc = "loop" /\ obs.steady /\ disp_mode = 0 /\ obs.sessions = 0
  /\ now = MkMoment(2019, 3, 10, 0, 0, 0)
  /\ rings = AnalogDisplay(rings, now)

C7_LongPressOnHourKeepsModes ==
  (obs.left = "hour" /\ obs.result)
    => /\ pc \in {"ret", "loop"}
       /\ \A i \in 1..Len(obs.visited) : obs.visited[i] # "minute"
       /\ disp_mode = obs.dispLeft
       /\ oled_mode = obs.oledLeft

\* C7 witness: a session in which both modes and the hour were changed was ended
\* by a long press on the Hour-edit screen.
C7_Witness ==
  /\ pc = "ret" /\ obs.left = "hour" /\ obs.result
  /\ disp_mode = 1 /\ oled_mode = 2
  /\ obs.redOn = "hour" /\ obs.redAdv = 1

\* C8 as stated: whenever configure() returns, then is equal to now.
C8_ThenIsNowAtReturn ==
  pc = "ret" => then = now

\* C9: when the main loop goes on after a session, the secondary display has been
\* cleared and drawn by Display of the selected secondary strategy before the
\* first Update: nothing of the configuration screens is left on it.
C9_RedrawnAfterSession ==
  (pc = "loop" /\ obs.sessions > 0)
    => CASE oled_mode = 0 -> oled.cells = {}
         [] oled_mode = 1 -> /\ oled.font = "lcdnums14x24"
                             /\ oled.cells = display_seconds(OledClear(oled), now).cells
         [] OTHER         -> /\ oled.font = "Arial14"
                             /\ display_date(OledClear(oled), now).cells \subseteq oled.cells
                             /\ \A x \in oled.cells :
                                  x.txt \notin {"Set Display", "Set OLED", "Set Hours", "Set Minute"}

\* C9 witness: a session that changed the secondary mode to Date is over and the
\* main loop shows the date.
C9_Witness ==
  /\ pc = "loop" /\ obs.sessions = 1 /\ oled_mode = 2
  /\ display_date(OledClear(oled), now).cells \subseteq oled.cells

---------------------------------------------------------------------------
(* Properties of the configuration screens *)

\* C11 as stated: on the Display-mode, Secondary-mode and Hour-edit screens a low
\* reading of the secondary button that lasts less than 10 ms changes neither
\* disp_mode nor oled_mode nor the edited hour.
C11_BounceChangesNothing ==
  (obs.redOn \in {"disp", "oled", "hour"} /\ obs.redHold < 10) => obs.redAdv = 0

\* a step of the screen scr that found the secondary button down (and the primary
\* button up, which is read first)
RedStep(scr) == pc = scr /\ blu = "up" /\ red = "down" /\ millis' # millis

\* a step of the screen scr that found the primary button down
BlueStep(scr) == pc = scr /\ blu = "down" /\ millis' # millis

\* C12: an advance on the Hour-edit screen turns hour h into h + 1, and 23 into 0;
\* an advance on the Minute-edit screen turns minute m into m + 1, and 59 into 0;
\* the edited hour is always in 0..23 and the edited minute in 0..59.
C12_EditsWrap ==
  [][/\ RedStep("hour") => now'.hour = (IF now.hour = 23 THEN 0 ELSE now.hour + 1)
     /\ RedStep("minute") => now'.minute = (IF now.minute = 59 THEN 0 ELSE now.minute + 1)
     /\ now'.hour \in 0..23
     /\ now'.minute \in 0..59]_vars

\* C12 witness: on 9 March the hour was advanced from 23 to 0 and then the minute
\* from 59 to 0.
C12_Witness ==
  /\ pc = "minute" /\ obs.redOn = "minute" /\ obs.redAdv = 1
  /\ now.day = 9 /\ now.hour = 0 /\ now.minute = 0

\* C13: disp_mode and oled_mode are always indices in 0..2, and an advance on a
\* mode-select screen from index 2 yields index 0.
C13_ModesAreIndices ==
  /\ [](disp_mode \in 0..2 /\ oled_mode \in 0..2)
  /\ [][/\ (RedStep("disp") /\ disp_mode = 2) => disp_mode' = 0
        /\ (RedStep("oled") /\ oled_mode = 2) => oled_mode' = 0]_vars

\* C13 witness: the secondary mode, 1 after setup(), was advanced to 2 and then by
\* one more press to 0.
C13_Witness ==
  /\ pc = "oled" /\ oled_mode = 0
  /\ obs.redOn = "oled" /\ obs.redAdv = 1

\* C14: an advance on the Hour-edit screen keeps year, month, day and minute and
\* sets the second to 0; an advance on the Minute-edit screen keeps year, month,
\* day and hour and sets the second to 0.
C14_EditsKeepOtherFields ==
  [][/\ RedStep("hour")
          => /\ now'.year = now.year /\ now'.month = now.month /\ now'.day = now.day
             /\ now'.minute = now.minute /\ now'.second = 0
     /\ RedStep("minute")
          => /\ now'.year = now.year /\ now'.month = now.month /\ now'.day = now.day
             /\ now'.hour = now.hour /\ now'.second = 0]_vars

\* C14 witness: on 9 March at 23:59 the hour was advanced: it is 0, the day still
\* the 9th, the minute still 59 and the second 0.
C14_Witness ==
  /\ pc = "hour" /\ obs.redOn = "hour" /\ obs.redAdv = 1
  /\ now.day = 9 /\ now.hour = 0 /\ now.minute = 59 /\ now.second = 0

\* the text display shows the number n on the line under the legend
ShowsNumber(o, n) == ScreenNumber(o, n).cells = o.cells

\* C15 as stated: in a session rtc.adjust is called exactly in the steps in which the
\* Hour-edit or the Minute-edit screen reads the primary button pressed, for short
\* and long presses alike and before the press is timed, and the Moment written is
\* the one that screen shows at that time; no other step writes the clock.
C15_ClockWrittenOnBlueOnly ==
  [][LET written == Len(obs'.wrote) = Len(obs.wrote) + 1
         last    == obs'.wrote[Len(obs'.wrote)]
     IN  /\ written <=> (BlueStep("hour") \/ BlueStep("minute"))
         /\ ~written => (obs'.wrote = obs.wrote \/ obs'.wrote = <<>>)
         /\ written
              => /\ last.on = pc
                 /\ last.m = now
                 /\ rtc' = Elapse([t |-> now, frac |-> 0], obs'.hold)
                 /\ pc = "hour" => ShowsNumber(oled, now.hour)
                 /\ pc = "minute" => ShowsNumber(oled', now.minute)]_vars

\* C16 as stated: every Moment a configuration screen passes to rtc.adjust has
\* second 0, also when no advance was made on the screen.
C16_WrittenSecondsZero ==
  \A i \in 1..Len(obs.wrote) : obs.wrote[i].m.second = 0

\* C17: in every step that changes disp_mode, Display of the newly selected
\* strategy is called, with the Moment the program holds as `then`, before that
\* strategy's Update: the rings and the strategy's members are afterwards what
\* Display(then) followed by Update(now, then) makes of them.
C17_DisplayBeforeUpdate ==
  [][disp_mode' # disp_mode
       => /\ then = now
          /\ LET ms == U32Add(millis, obs'.redHold)
                 d  == TimeDisplay(disp_mode', rings, pastel, ms, then)
                 u  == TimeUpdate(disp_mode', d.rings, d.pastel, ms, now', then)
             IN  rings' = u.rings /\ pastel' = u.pastel]_vars

\* C17 witness: Pastel has just been selected on the Display-mode screen and its
\* members hold the deadlines that its Display has set.
C17_Witness ==
  /\ pc = "disp" /\ disp_mode = 2 /\ red = "up"
  /\ obs.redOn = "disp" /\ obs.redAdv = 1
  /\ pastel.led_off /\ pastel.minute_tmr # U32Of(0)

---------------------------------------------------------------------------
(* Properties of Display *)

\* C18: for each strategy and every Moment m, the pixels of both rings after
\* Display(m) depend on m only, not on what the rings held before: they are what
\* Display(m) makes of blank rings, and a second Display(m) changes nothing.
C18_DisplayDependsOnMomentOnly ==
  pc = "redrawn"
    => /\ rings = TimeDisplay(disp_mode, BlankRings, PastelZero, millis, now).rings
       /\ rings = TimeDisplay(disp_mode, rings, pastel, millis, now).rings

\* C18 witness: Arc has drawn midday, where it fills the whole hours ring, over
\* what another call had left on the rings.
C18_Witness ==
  /\ pc = "redrawn" /\ disp_mode = 1 /\ now.hour = 12
  /\ \A i \in DOMAIN rings.led24 : rings.led24[i] = Rgb(0, 0, 30)

---------------------------------------------------------------------------
(* The pixel indices that Display and Update pass to setPixelColor *)

\* AnalogTimeDisplay::Display, ring24: lines 533-536
AnalogDisplayIndex24(tn) ==
  (0..(RING24_MAX - 1)) \cup {TwentyFourToTwelve(tn.hour) * 2}

\* AnalogTimeDisplay::Display, ring60: lines 523-531
AnalogDisplayIndex60(tn) == (0..(RING60_MAX - 1)) \cup {tn.minute, tn.second}

\* AnalogTimeDisplay::Update, ring24: lines 546-550
AnalogUpdateIndex24(tn, tt) ==
  LET tn_hr == TwentyFourToTwelve(tn.hour) * 2
      tt_hr == TwentyFourToTwelve(tt.hour) * 2
  IN  IF tn_hr # tt_hr THEN {tn_hr, tt_hr} ELSE {}

\* AnalogTimeDisplay::Update, ring60: lines 552-572
AnalogUpdateIndex60(tn, tt) ==
  (IF tn.minute # tt.minute THEN {tt.minute, tn.minute} ELSE {})
    \cup (IF tn.second # tt.second
          THEN {IF tt.second = tn.minute THEN tn.minute ELSE tt.second, tn.second}
          ELSE {})

\* ArcTimeDisplay::Display, ring24: lines 339-359
ArcDisplayIndex24(tn) ==
  IF tn.hour = 0 \/ tn.hour = 12 THEN 0..RING24_MAX ELSE 0..(RING24_MAX - 1)

\* ArcTimeDisplay::Display, ring60: lines 323-334
ArcDisplayIndex60(tn) == 0..(RING60_MAX - 1)

\* ArcTimeDisplay::Update, ring24: lines 367-369
ArcUpdateIndex24(tn, tt) ==
  IF tn.minute # tt.minute THEN ArcDisplayIndex24(tn) ELSE {}

\* ArcTimeDisplay::Update, ring60: lines 367-379
ArcUpdateIndex60(tn, tt) ==
  IF tn.minute # tt.minute THEN ArcDisplayIndex60(tn)
  ELSE IF tn.second # tt.second THEN {tn.second}
  ELSE {}

\* PastelTimeDisplay::Display, ring24: lines 419-431
PastelDisplayIndex24(tn) ==
  (0..(RING24_MAX - 1)) \cup {TwentyFourToTwelve(tn.hour) * 2}

\* PastelTimeDisplay::Display, ring60: lines 409-432
PastelDisplayIndex60(tn) == (0..(RING60_MAX - 1)) \cup {tn.minute}

\* PastelTimeDisplay::Update, ring24, on every path through it: lines 450, 461-477
PastelUpdateIndex24(tn, tt) ==
  {TwentyFourToTwelve(tt.hour) * 2, TwentyFourToTwelve(tn.hour) * 2}
    \cup (0..(RING24_MAX - 1))

\* PastelTimeDisplay::Update, ring60, on every path through it: lines 451-478
PastelUpdateIndex60(tn, tt) == {tt.minute, tn.minute} \cup (0..(RING60_MAX - 1))

\* the indices time_display[mode]->Display(tn) passes for the hours ring
DisplayIndex24(mode, tn) ==
  CASE mode = 0 -> AnalogDisplayIndex24(tn)
    [] mode = 1 -> ArcDisplayIndex24(tn)
    [] OTHER    -> PastelDisplayIndex24(tn)

\* the indices time_display[mode]->Display(tn) passes for the minutes ring
DisplayIndex60(mode, tn) ==
  CASE mode = 0 -> AnalogDisplayIndex60(tn)
    [] mode = 1 -> ArcDisplayIndex60(tn)
    [] OTHER    -> PastelDisplayIndex60(tn)

\* the indices time_display[mode]->Update(tn, tt) passes for the hours ring
UpdateIndex24(mode, tn, tt) ==
  CASE mode = 0 -> AnalogUpdateIndex24(tn, tt)
    [] mode = 1 -> ArcUpdateIndex24(tn, tt)
    [] OTHER    -> PastelUpdateIndex24(tn, tt)

\* the indices time_display[mode]->Update(tn, tt) passes for the minutes ring
UpdateIndex60(mode, tn, tt) ==
  CASE mode = 0 -> AnalogUpdateIndex60(tn, tt)
    [] mode = 1 -> ArcUpdateIndex60(tn, tt)
    [] OTHER    -> PastelUpdateIndex60(tn, tt)

\* C19 as stated: every pixel index that Display or Update of any strategy passes to
\* setPixelColor lies in 0..23 for the hours ring and in 0..59 for the minutes
\* ring, Arc Display at hour 0 and at hour 12 included.
C19_IndicesInRange ==
  /\ pc = "render"
       => /\ DisplayIndex24(disp_mode, then) \subseteq 0..23
          /\ DisplayIndex60(disp_mode, then) \subseteq 0..59
  /\ pc = "rendered"
       => /\ UpdateIndex24(disp_mode, now, then) \subseteq 0..23
          /\ UpdateIndex60(disp_mode, now, then) \subseteq 0..59

\* C20: after Analog Display(m): on the hours ring exactly the pixel 2 * (hour mod 12)
\* is lit, (30,0,0), and the 23 others are off; on the minutes ring the pixel at the
\* second index is (0,0,30), the pixel at the minute index is (0,30,0) unless it is
\* also the second index, every other multiple of 5 is (10,10,10), the rest is off.
C20_AnalogLayout ==
  (pc = "render" /\ disp_mode = 0)
    => /\ DOMAIN rings.led24 = 0..23
       /\ DOMAIN rings.led60 = 0..59
       /\ \A i \in 0..23 :
            rings.led24[i] = IF i = 2 * (then.hour % 12) THEN <<30, 0, 0>> ELSE <<0, 0, 0>>
       /\ \A i \in 0..59 :
            rings.led60[i] = IF i = then.second THEN <<0, 0, 30>>
                             ELSE IF i = then.minute THEN <<0, 30, 0>>
                             ELSE IF i % 5 = 0 THEN <<10, 10, 10>>
                             ELSE <<0, 0, 0>>
       /\ rings.px24 = rings.led24
       /\ rings.px60 = rings.led60

\* C20 witness: Analog has drawn 23:05:05: hour pixel 22, and pixel 5, a tick mark and
\* the minute, shows the second.
C20_Witness ==
  /\ pc = "render" /\ disp_mode = 0
  /\ then.hour = 23 /\ then.minute = 5 /\ then.second = 5
  /\ rings.led24[22] = <<30, 0, 0>>
  /\ rings.led60[5] = <<0, 0, 30>>

\* C21: after Arc Display(m) the hours ring shows an arc from index 0 to index
\* 2 * (hour mod 12): at hour 0 all 24 pixels are off whatever the minute and the
\* second, at hour 12 all 24 pixels are lit, and at every other hour exactly the
\* pixels with index <= 2 * (hour mod 12) are lit and the rest are off.
C21_ArcLayout ==
  (pc \in {"render", "redrawn"} /\ disp_mode = 1)
    => LET m == IF pc = "render" THEN then ELSE now
       IN  /\ DOMAIN rings.led24 = 0..23
           /\ rings.px24 = rings.led24
           /\ \A i \in 0..23 :
                (rings.led24[i] # <<0, 0, 0>>)
                  <=> CASE m.hour = 0  -> FALSE
                        [] m.hour = 12 -> TRUE
                        [] OTHER       -> i <= 2 * (m.hour % 12)

\* C21 witness: Arc has drawn hour 1 over what Analog had left on the rings: the
\* pixels 0, 1, 2 of the hours ring are lit and pixel 3 is off.
C21_Witness ==
  /\ pc = "redrawn" /\ disp_mode = 1 /\ now.hour = 1
  /\ \A i \in 0..2 : rings.led24[i] = <<30, 0, 0>>
  /\ rings.led24[3] = <<0, 0, 0>>

---------------------------------------------------------------------------
(* Display over every hour of the day.  Init draws the strategy and a      *)
(* Moment with any hour in 0..23; RenderDisplay calls Display of it.       *)

\* every hour tn.hour() can return, at the first and the last minute
HourMoments == {MkMoment(2019, 3, 9, h, mi, 0) : h \in 0..23, mi \in {0, 59}}

HourInit ==
  /\ pc = "blank"
  /\ disp_mode \in 0..(disp_mode_max - 1)
  /\ oled_mode = 1
  /\ then \in HourMoments
  /\ now = then
  /\ rtc = Adjust(then)
  /\ rings = BlankRings
  /\ pastel = PastelZero
  /\ millis \in RenderMillis
  /\ blu = "up"
  /\ red = "up"
  /\ oled = OledBlank
  /\ obs = ObsInit

HourNext == RenderDisplay

HourSpec == HourInit /\ [][HourNext]_vars

\* C22: TwentyFourToTwelve(h) is h for h in 0..11 and h - 12 for h in 12..23, so it
\* lies in 0..11, and the hours-ring index 2 * TwentyFourToTwelve(h) that Analog
\* and Pastel use is an even number in 0..22: after Display it is the one red pixel
\* of Analog and the dark marker of Pastel.
C22_TwelveHour ==
  pc = "render"
    => LET h  == then.hour
           t  == TwentyFourToTwelve(h)
           hr == 2 * t
       IN  /\ h \in 0..23
           /\ h \in 0..11 => t = h
           /\ h \in 12..23 => t = h - 12
           /\ t \in 0..11
           /\ hr % 2 = 0 /\ hr \in 0..22
           /\ disp_mode = 0
                => {i \in 0..23 : rings.led24[i] = <<30, 0, 0>>} = {hr}
           /\ disp_mode = 2
                => {i \in 0..23 : rings.led24[i] = <<0, 0, 0>>} = {hr}

\* C22 witness: Analog has drawn midday, which maps to 0: pixel 0 of the hours
\* ring is the red one.
C22_Witness ==
  /\ pc = "render" /\ disp_mode = 0 /\ then.hour = 12
  /\ TwentyFourToTwelve(then.hour) = 0
  /\ rings.led24[0] = <<30, 0, 0>>

---------------------------------------------------------------------------
(* Properties of the Pastel gradient *)

\* C23: after Pastel Display(m) the pixel 2 * (hour mod 12) of the hours ring and
\* the pixel minute of the minutes ring are black, hour_clr and minute_clr are the
\* colours the two loops of the same Display painted at those indices, and the
\* rings with the cached colours written back are the unmarked gradient.
C23_PastelCache ==
  (pc \in {"render", "redrawn"} /\ disp_mode = 2)
    => LET m   == IF pc = "render" THEN then ELSE now
           hr  == 2 * (m.hour % 12)
           g60 == [i \in 0..59 |-> PastelLoop60.painted[i + 1]]
           g24 == [i \in 0..23 |-> PastelLoop24.painted[i + 1]]
       IN  /\ rings.led24[hr] = <<0, 0, 0>>
           /\ rings.led60[m.minute] = <<0, 0, 0>>
           /\ rings.px24 = rings.led24 /\ rings.px60 = rings.led60
           /\ pastel.hour_clr = g24[hr][1] * 65536 + g24[hr][2] * 256 + g24[hr][3]
           /\ pastel.minute_clr = g60[m.minute][1] * 65536 + g60[m.minute][2] * 256
                                    + g60[m.minute][3]
           /\ RestoreMarker(rings.px24, hr, pastel.hour_clr) = g24
           /\ RestoreMarker(rings.px60, m.minute, pastel.minute_clr) = g60

\* C23 witness: Pastel has drawn 23:59: pixel 22 of the hours ring and pixel 59 of
\* the minutes ring are black and both cached colours are colours, not black.
C23_Witness ==
  /\ pc = "render" /\ disp_mode = 2
  /\ then.hour = 23 /\ then.minute = 59
  /\ rings.led24[22] = <<0, 0, 0>> /\ rings.led60[59] = <<0, 0, 0>>
  /\ pastel.hour_clr # 0 /\ pastel.minute_clr # 0

\* C24: every colour Pastel Display paints on either ring has its three channels
\* in 0..20 and never all three non-zero; along the minutes ring one channel goes
\* up by 1 and one down by 1 from pixel to pixel, along the hours ring by 2 after
\* an even index and by 3 after an odd one.
C24_PastelChannels ==
  (pc \in {"render", "redrawn"} /\ disp_mode = 2)
    => LET m   == IF pc = "render" THEN then ELSE now
           hr  == 2 * (m.hour % 12)
           u60 == [i \in 0..59 |-> IF i = m.minute THEN Unpack(pastel.minute_clr)
                                   ELSE rings.led60[i]]
           u24 == [i \in 0..23 |-> IF i = hr THEN Unpack(pastel.hour_clr)
                                   ELSE rings.led24[i]]
           InRange(c) == /\ \A k \in 1..3 : c[k] \in 0..20
                         /\ \E k \in 1..3 : c[k] = 0
           Ups(c, d)   == {k \in 1..3 : d[k] - c[k] > 0}
           Downs(c, d) == {k \in 1..3 : d[k] - c[k] < 0}
           Stepped(c, d, n) ==
             /\ Cardinality(Ups(c, d)) = 1 /\ Cardinality(Downs(c, d)) = 1
             /\ \A k \in Ups(c, d) : d[k] - c[k] = n
             /\ \A k \in Downs(c, d) : c[k] - d[k] = n
       IN  /\ \A i \in 0..59 : InRange(u60[i])
           /\ \A i \in 0..23 : InRange(u24[i])
           /\ \A i \in 0..58 : Stepped(u60[i], u60[i + 1], 1)
           /\ \A i \in 0..22 : Stepped(u24[i], u24[i + 1], IF i % 2 = 0 THEN 2 ELSE 3)

\* C24 witness: Pastel has drawn a Moment; the gradient reaches 20 on every channel
\* of both rings: green at pixel 20 and blue at pixel 40 of the minutes ring, green
\* at pixel 8 and blue at pixel 16 of the hours ring.
C24_Witness ==
  /\ pc = "render" /\ disp_mode = 2 /\ then.hour = 1 /\ then.minute = 5
  /\ rings.led60[0] = <<20, 0, 0>>
  /\ rings.led60[20] = <<0, 20, 0>> /\ rings.led60[40] = <<0, 0, 20>>
  /\ rings.led24[0] = <<20, 0, 0>>
  /\ rings.led24[8] = <<0, 20, 0>> /\ rings.led24[16] = <<0, 0, 20>>

---------------------------------------------------------------------------
(* What Update writes and which rings it flushes *)

\* AnalogTimeDisplay::Update: the rings on which show() is called, lines 546-550, 574
AnalogUpdateShows(tn, tt) ==
  (IF TwentyFourToTwelve(tn.hour) * 2 # TwentyFourToTwelve(tt.hour) * 2
   THEN {"ring24"} ELSE {})
    \cup (IF tn.minute # tt.minute \/ tn.second # tt.second THEN {"ring60"} ELSE {})

\* ArcTimeDisplay::Update: the rings on which show() is called, lines 359-360, 378
ArcUpdateShows(tn, tt) ==
  IF tn.minute # tt.minute THEN {"ring24", "ring60"}
  ELSE IF tn.second # tt.second THEN {"ring60"}
  ELSE {}

\* the pixels at which two ring contents differ
Changed(f, g) == {i \in DOMAIN f : f[i] # g[i]}

\* C25: Analog Update(current, previous) writes only the old and the new hour index
\* of the hours ring and the old and the new minute and second index of the minutes
\* ring, flushes the hours ring only when the 12-hour hour changed and the minutes
\* ring only when minute or second changed, and writes and flushes nothing when
\* previous equals current.  Arc Update on a change of the second only writes one
\* pixel of the minutes ring and neither writes nor flushes the hours ring.
C25_UpdateWritesAndFlushes ==
  [][(pc = "render" /\ pc' = "rendered")
      => LET tn == now'
             tt == then
             hrs  == {2 * (tt.hour % 12), 2 * (tn.hour % 12)}
             mins == {tt.minute, tn.minute, tt.second, tn.second}
         IN  /\ disp_mode = 0
                  => /\ AnalogUpdateIndex24(tn, tt) \subseteq hrs
                     /\ AnalogUpdateIndex60(tn, tt) \subseteq mins
                     /\ Changed(rings'.px24, rings.px24) \subseteq hrs
                     /\ Changed(rings'.px60, rings.px60) \subseteq mins
                     /\ "ring24" \in AnalogUpdateShows(tn, tt)
                          => tt.hour % 12 # tn.hour % 12
                     /\ "ring60" \in AnalogUpdateShows(tn, tt)
                          => (tt.minute # tn.minute \/ tt.second # tn.second)
                     /\ tt.hour % 12 = tn.hour % 12 => rings'.led24 = rings.led24
                     /\ (tt.minute = tn.minute /\ tt.second = tn.second)
                          => rings'.led60 = rings.led60
                     /\ tn = tt
                          => /\ AnalogUpdateIndex24(tn, tt) = {}
                             /\ AnalogUpdateIndex60(tn, tt) = {}
                             /\ AnalogUpdateShows(tn, tt) = {}
                             /\ rings' = rings
             /\ (disp_mode = 1 /\ tn.second # tt.second /\ tn.minute = tt.minute
                   /\ tn.hour = tt.hour)
                  => /\ ArcUpdateIndex60(tn, tt) = {tn.second}
                     /\ ArcUpdateIndex24(tn, tt) = {}
                     /\ ArcUpdateShows(tn, tt) = {"ring60"}
                     /\ Changed(rings'.px60, rings.px60) \subseteq {tn.second}
                     /\ rings'.px24 = rings.px24
                     /\ rings'.led24 = rings.led24]_vars

\* C25 witness: Analog Update from 00:00:01 to 12:05:59: the 12-hour hour is the
\* same, so the hours ring is as Display(previous) left it, and the minutes ring
\* differs from it at the four pixels 0, 1, 5 and 59 only.
C25_Witness ==
  /\ pc = "rendered" /\ disp_mode = 0
  /\ then.hour = 0 /\ then.minute = 0 /\ then.second = 1
  /\ now.hour = 12 /\ now.minute = 5 /\ now.second = 59
  /\ rings.led24 = AnalogDisplay(BlankRings, then).led24
  /\ Changed(rings.led60, AnalogDisplay(BlankRings, then).led60) = {0, 1, 5, 59}

---------------------------------------------------------------------------
(* The text display strategies on their own.  Init draws the strategy and  *)
(* the previous Moment; TextDisplay calls Display(previous) on a cleared    *)
(* surface, as setup() and loop() do; TextUpdate draws the current Moment   *)
(* and calls Update(current, previous).                                     *)

\* Moments on two days, with seconds of one and of two digits
TextMoments ==
  {MkMoment(2019, 3, d, 23, 59, s) : d \in {9, 10}, s \in {0, 9, 10, 59}}

TextInit ==
  /\ pc = "blank"
  /\ disp_mode = 0
  /\ oled_mode \in 0..(oled_mode_max - 1)
  /\ then \in TextMoments
  /\ now = then
  /\ rtc = Adjust(then)
  /\ rings = BlankRings
  /\ pastel = PastelZero
  /\ millis = U32Of(0)
  /\ blu = "up"
  /\ red = "up"
  /\ oled = OledBlank
  /\ obs = ObsInit

TextDisplay ==
  /\ pc = "blank"
  /\ oled' = loop_redraw(oled_mode, oled, then)
  /\ pc' = "text"
  /\ UNCHANGED <<disp_mode, oled_mode, now, then, rtc, rings, pastel, millis, blu, red, obs>>

TextUpdate ==
  /\ pc = "text"
  /\ \E cur \in TextMoments :
       /\ now' = cur
       /\ oled' = OledUpdate(oled_mode, oled, cur, then)
  /\ pc' = "texted"
  /\ UNCHANGED <<disp_mode, oled_mode, then, rtc, rings, pastel, millis, blu, red, obs>>

TextNext == TextDisplay \/ TextUpdate

TextSpec == TextInit /\ [][TextNext]_vars

\* C26 as stated: Date Update(current, previous): when the day differs the surface
\* is cleared and the weekday name and the zero-padded year/month/day are printed,
\* so that the surface afterwards is what Display(current) produces; when the day
\* is the same nothing is printed.  Seconds Update prints the two-digit zero-padded
\* second at the fixed cursor position exactly when the second changed.
C26_TextUpdate ==
  [][(pc = "text" /\ pc' = "texted")
      => LET tn == now'
             tt == then
         IN  /\ (oled_mode = 2 /\ tn.day # tt.day)
                  => oled'.cells = OledDisplay(2, OledBlank, tn).cells
             /\ (oled_mode = 2 /\ tn.day = tt.day) => oled' = oled
             /\ (oled_mode = 1 /\ tn.second # tt.second)
                  => oled'.cells = {[col |-> 40, row |-> 20, txt |-> Digit(tn.second \div 10)],
                                    [col |-> 41, row |-> 20, txt |-> Digit(tn.second % 10)]}
             /\ (oled_mode = 1 /\ tn.second = tt.second) => oled' = oled]_vars

---------------------------------------------------------------------------
(* The Pastel gradient across main loop and sessions *)

\* The program with Pastel selected.  Init is the state in which configure()
\* has just returned after a session that selected Pastel and was ended by a short
\* press on Minute edit: that screen has called Display(now) and rtc.adjust(now),
\* configure() has set then = now, and loop() goes on at line 826.  The events of
\* the run are counted from there.

\* the Moment written by that session: four seconds before midnight, and an hour
\* and minute that do not change during the run
PastelMoments == {MkMoment(2019, 3, 9, 23, 59, 56), MkMoment(2019, 3, 9, 11, 58, 3)}

PastelInit ==
  /\ pc = "ret"
  /\ disp_mode = 2
  /\ oled_mode = 1
  /\ now \in PastelMoments
  /\ then = now
  /\ rtc = Elapse(Adjust(now), 999)
  /\ millis = U32Of(999)
  /\ LET d == TimeDisplay(2, BlankRings, PastelZero, U32Of(0), now)
     IN  rings = d.rings /\ pastel = d.pastel
  /\ oled = MinuteTop(ScreenLegend(OledBlank, "Set Minute"), now)
  /\ blu = "up"
  /\ red = "up"
  /\ obs = ObsInit

PastelSpec == PastelInit /\ [][Next]_vars

\* ring u is ring g turned by some number of pixels
IsRotation(u, g, max) ==
  \E k \in 0..(max - 1) : \A i \in 0..(max - 1) : u[i] = g[(i + max - k) % max]

\* C27 as stated: while Pastel is selected, after any interleaving of main-loop
\* iterations and sessions, hour_clr and minute_clr are colours of the gradient
\* (never black), each ring with its marker pixel replaced by the cached colour is
\* a cyclic rotation of the gradient Display paints, and no ring has more than one
\* black pixel.
C27_PastelIntegrity ==
  (disp_mode = 2 /\ pc \in {"loop", "ret", "disp", "oled", "hour", "minute"})
    => LET g60 == [i \in 0..59 |-> PastelLoop60.painted[i + 1]]
           g24 == [i \in 0..23 |-> PastelLoop24.painted[i + 1]]
           hr  == 2 * (now.hour % 12)
           u60 == [rings.px60 EXCEPT ![now.minute] = Unpack(pastel.minute_clr)]
           u24 == [rings.px24 EXCEPT ![hr] = Unpack(pastel.hour_clr)]
       IN  /\ pastel.hour_clr # 0 /\ pastel.minute_clr # 0
           /\ \E i \in 0..23 : Unpack(pastel.hour_clr) = g24[i]
           /\ \E i \in 0..59 : Unpack(pastel.minute_clr) = g60[i]
           /\ IsRotation(u60, g60, RING60_MAX)
           /\ IsRotation(u24, g24, RING24_MAX)
           /\ Cardinality({i \in 0..59 : rings.px60[i] = <<0, 0, 0>>}) <= 1
           /\ Cardinality({i \in 0..23 : rings.px24[i] = <<0, 0, 0>>}) <= 1

---------------------------------------------------------------------------
(* long_button_press on its own.  Init is the entry into the function with  *)
(* the button down, at a counter value near 0 or near the wrap-around; the  *)
(* action is its return, when the button is let go after some hold.         *)

\* millis() at entry: 0, and 1000, 500, 10 and 1 ms before the counter wraps
PressStarts ==
  {U32Of(0), <<W16 - 1, W16 - 1000>>, <<W16 - 1, W16 - 500>>, <<W16 - 1, W16 - 10>>,
   <<W16 - 1, W16 - 1>>}

\* milliseconds from the entry to the release of the button
PressHolds == {0, 1, 9, 10, 11, 500, 999, 1000, 1001, 2000}

PressInit ==
  /\ pc \in {"blue_wait", "red_wait"}
  /\ disp_mode = 0
  /\ oled_mode = 1
  /\ now \in StartMoments
  /\ then = now
  /\ rtc = Adjust(now)
  /\ rings = BlankRings
  /\ pastel = PastelZero
  /\ millis \in PressStarts
  /\ blu = IF pc = "blue_wait" THEN "down" ELSE "up"
  /\ red = IF pc = "red_wait" THEN "down" ELSE "up"
  /\ oled = OledBlank
  /\ obs = ObsInit

\* long_button_press(BLU_BTTN_PIN, 1000) returns: lines 612, 654, 694, 740
PressBlueReturn ==
  /\ pc = "blue_wait"
  /\ \E d \in PressHolds :
       /\ millis' = U32Add(millis, d)
       /\ obs' = [obs EXCEPT !.hold = d,
                             !.result = long_button_press(millis, millis', 1000)]
  /\ blu' = wait_release(blu)
  /\ pc' = "blue_done"
  /\ UNCHANGED <<disp_mode, oled_mode, now, then, rtc, rings, pastel, red, oled>>

\* long_button_press(RED_BTTN_PIN, 10) returns: lines 615, 657, 697
PressRedReturn ==
  /\ pc = "red_wait"
  /\ \E d \in PressHolds :
       /\ millis' = U32Add(millis, d)
       /\ obs' = [obs EXCEPT !.hold = d,
                             !.result = long_button_press(millis, millis', 10)]
  /\ red' = "up"
  /\ pc' = "red_done"
  /\ UNCHANGED <<disp_mode, oled_mode, now, then, rtc, rings, pastel, blu, oled>>

PressNext == PressBlueReturn \/ PressRedReturn

PressSpec == PressInit /\ [][PressNext]_vars

\* C28: long_button_press(button, t) returns only when the button reads released,
\* and returns true exactly when the counter advanced by at least t between entry
\* and release, exactly t included, also when the 32-bit counter wrapped around
\* during the press.
C28_LongPress ==
  /\ pc = "blue_done" => (blu = "up" /\ (obs.result <=> obs.hold >= 1000))
  /\ pc = "red_done" => (red = "up" /\ (obs.result <=> obs.hold >= 10))
  /\ pc = "blue_wait" => blu = "down"
  /\ pc = "red_wait" => red = "down"

\* C28 witness: the blue button was held for exactly 1000 ms from 500 ms before
\* the counter wrapped, and the press counted as long.
C28_Witness ==
  /\ pc = "blue_done" /\ blu = "up"
  /\ obs.hold = 1000 /\ millis = <<0, 500>>
  /\ obs.result

---------------------------------------------------------------------------
(* Presses of the primary button *)

\* C29: one press of the primary button is consumed by at most one step of the
\* session: the step that opens a session and every step in which a screen reads
\* the button pressed end with the button released, and the button goes down again
\* only by a new press of the user, which the program does not see before its next
\* poll; so one held press never confirms two screens and never opens and closes a
\* session.
C29_OnePressOneStep ==
  [][/\ (pc = "loop" /\ pc' = "disp") => (blu = "down" /\ blu' = "up")
     /\ \A scr \in {"disp", "oled", "hour", "minute"} :
          BlueStep(scr) => (blu' = "up" /\ pc' # pc)
     /\ (OnScreen(pc) /\ pc' # pc) => (blu = "down" /\ blu' = "up")
     /\ (blu = "up" /\ blu' = "down")
          => (pc' = pc /\ millis' = millis /\ obs'.events = obs.events + 1
              /\ obs'.visited = obs.visited /\ obs'.sessions = obs.sessions)]_vars

\* C29 witness: three presses so far: one opened the session, one confirmed the
\* Display-mode screen, one confirmed the Secondary-mode screen; the button is up
\* and the Hour screen waits for the next one.
C29_Witness ==
  /\ pc = "hour" /\ blu = "up"
  /\ obs.events = 3 /\ obs.sessions = 1
  /\ obs.visited = <<"disp", "oled", "hour">>

---------------------------------------------------------------------------
(* Termination of a session *)

\* The program keeps running: with the primary button held down, loop() reaches
\* its test at line 824 and a screen reaches its next poll of the button (lines
\* 611, 653, 692, 738), and the press is released after a finite hold.
\* events in one run of LiveSpec
LiveEvents == 5

LiveNext == Next /\ obs'.events <= LiveEvents

LiveSpec ==
  /\ Init /\ [][LiveNext]_vars
  /\ WF_vars(LoopConfigure)
  /\ WF_vars(DispBlue) /\ WF_vars(OledBlue) /\ WF_vars(HourBlue) /\ WF_vars(MinuteBlue)

\* the user presses the primary button, sooner or later, on each screen reached
PressedOnEachScreen == OnScreen(pc) ~> (blu = "down" \/ ~OnScreen(pc))

\* C30: if every press is released in the end and the user presses the primary
\* button, sooner or later, on each screen reached, every session returns to the
\* main loop, after at most four primary presses read by its screens; a screen is
\* left only by a step that read the primary button pressed, never by a poll that
\* found no button pressed or the secondary button pressed.
C30_SessionReturns ==
  /\ PressedOnEachScreen => (OnScreen(pc) ~> pc = "ret")
  /\ [][/\ (OnScreen(pc) /\ pc' # pc) => \E scr \in {"disp", "oled", "hour", "minute"} : BlueStep(scr)
        /\ \A scr \in {"disp", "oled", "hour", "minute"} : RedStep(scr) => pc' = pc
        /\ (OnScreen(pc) /\ blu = "up") => pc' = pc
        /\ Len(obs'.visited) <= 4]_vars

\* C30 witness: a session has returned after four primary presses, one on each
\* screen, the four of them short.
C30_Witness ==
  /\ pc = "ret" /\ obs.sessions = 1
  /\ obs.visited = <<"disp", "oled", "hour", "minute">>
  /\ obs.left = "minute" /\ ~obs.result
  /\ blu = "up"

---------------------------------------------------------------------------
(* The Moment held on the time-edit screens *)

\* one advance on the time-edit screen scr: lines 697-706 and 743-753
EditAdvance(scr, m) == IF scr = "hour" THEN AdvanceHour(m) ELSE AdvanceMinute(m)

RECURSIVE EditAdvances(_, _, _)
\* k advances on the time-edit screen scr, one after the other
EditAdvances(scr, m, k) ==
  IF k = 0 THEN m ELSE EditAdvance(scr, EditAdvances(scr, m, k - 1))

\* the latest entry into a time-edit screen
LastEntry == obs.entry[Len(obs.entry)]

\* C31: while the Hour-edit or the Minute-edit screen is active, `now` is the
\* Moment the screen read from the clock at its entry with the advances made on
\* the screen since then applied, however far the clock has moved on meanwhile;
\* a step that stays on the screen changes `now` only if it read the secondary
\* button pressed, and then by one advance; and the Moment a primary press on
\* the screen writes to the clock is the Moment read at entry with those
\* advances applied.
C31_EditHoldsEntryMoment ==
  /\ [](pc \in {"hour", "minute"}
          => /\ obs.entry # <<>>
             /\ LastEntry.on = pc
             /\ now = EditAdvances(pc, LastEntry.m, obs.steps))
  /\ [][\A scr \in {"hour", "minute"} :
          /\ (pc = scr /\ pc' = scr /\ now' # now)
               => /\ RedStep(scr)
                  /\ now' = EditAdvance(scr, now)
                  /\ obs'.steps = obs.steps + 1
          /\ (pc = scr /\ pc' = scr /\ ~RedStep(scr)) => obs'.steps = obs.steps
          /\ BlueStep(scr)
               => /\ Len(obs'.wrote) = Len(obs.wrote) + 1
                  /\ obs'.wrote[Len(obs'.wrote)].m
                       = EditAdvances(scr, LastEntry.m, obs.steps)
                  /\ rtc'.t = AddSeconds(EditAdvances(scr, LastEntry.m, obs.steps),
                                         obs'.hold \div 1000)]_vars

\* the Minute-edit screen, entered with a Moment whose seconds are not 0, has
\* made one advance and was left by a primary press at least 400 ms after its
\* entry; the clock, which passed into the next second meanwhile, was set to the
\* Moment read at entry with that advance applied
C31_Witness ==
  /\ pc = "ret" /\ obs.left = "minute"
  /\ Len(obs.entry) = 2 /\ Len(obs.wrote) = 2
  /\ LastEntry.on = "minute" /\ LastEntry.m.second # 0
  /\ obs.steps = 1
  /\ obs.wrote[2].m = AdvanceMinute(LastEntry.m)
  /\ ~U32Gt(U32Add(LastEntry.at, obs.hold + 400), millis)
  /\ U32Gt(millis, U32Add(LastEntry.at, obs.hold))

====
